---- MODULE Spec2Model ----
(***************************************************************************)
(* Bluetti BT integration: the config-entry setup with its bootstrap       *)
(* retry loop (custom_components/bluetti_bt/__init__.py) and the select    *)
(* entity with its optimistic write path (select.py).                      *)
(*                                                                         *)
(* Tasks are asyncio coroutines on one event loop: a step of the model is  *)
(* the code that runs between two awaits.  The coordinator's refresh and   *)
(* the library's DeviceWriter.write are not in the source tree; they are   *)
(* modelled from the design document (acquire the lock, exchange with the  *)
(* device, release the lock).                                              *)
(***************************************************************************)
EXTENDS Integers, FiniteSets, Sequences, TLC

\* ------------------------------------------------------------ constants

\* __init__.py:66  max_initial_attempts = 5
max_initial_attempts == 5
\* __init__.py:67  initial_retry_delay = 5
initial_retry_delay == 5
\* select.py:97  self._unavailable_counter = 5
InitialUnavailableCounter == 5
\* select.py:219  timeout = 10
ReuseTimeout == 10
\* select.py:222  timeout = 45
NewConnectionTimeout == 45
\* select.py:242  await asyncio.sleep(3)
SettleDelay == 3

\* Bound of the model: _unavailable_counter is an unbounded Python int.
MaxCounter == 6

\* The option names of the select field ([e.name for e in field.e]).
Options == {"ECO", "TURBO"}

\* The write tasks (calls of async_select_option that may overlap).
Writers == {"w1", "w2"}
\* The setup task, the coordinator's scheduled refresh, and the writers.
Tasks == {"setup", "sched"} \cup Writers

\* asyncio.Lock objects; "lock_a" is the one __init__.py:55 creates.
Locks == {"lock_a", "lock_b"}

NoTask == "none"
Absent == "absent"

\* A PollingCoordinator object, by the lock it was constructed with
\* (__init__.py:59-63); NoCoordinator stands for a missing registry entry.
Coordinator(l) == [lock |-> l]
NoCoordinator == [lock |-> Absent]

\* coordinator.data as _handle_coordinator_update reads it at a delivery
\* (the snapshot the refresh has just stored): None, something
\* that is no dict, or a dict whose .get(response_key) is None ("missing"),
\* a value of another type ("wrong_type"), or a member of the field's enum.
NoneData == [kind |-> "None", value |-> "missing"]
NonDictData == [kind |-> "NonDict", value |-> "missing"]
DictData(v) == [kind |-> "Dict", value |-> v]
FieldValues == {"missing", "wrong_type"} \cup Options
Snapshots == {NoneData, NonDictData} \cup {DictData(v) : v \in FieldValues}

\* coordinator.reader as write_to_device inspects it.
ReaderStates ==
    {r \in [has_reader : BOOLEAN, client_present : BOOLEAN, is_connected : BOOLEAN,
            encryption_present : BOOLEAN, is_ready_for_commands : BOOLEAN] :
        /\ (r.is_connected => r.client_present)
        /\ (r.is_ready_for_commands => r.encryption_present)
        /\ (~r.has_reader => ~r.client_present /\ ~r.encryption_present)}

NoReader == [has_reader |-> FALSE, client_present |-> FALSE, is_connected |-> FALSE,
             encryption_present |-> FALSE, is_ready_for_commands |-> FALSE]
FreshReader == [NoReader EXCEPT !.has_reader = TRUE]

\* _attr_extra_state_attributes; {} is encoded with data_stale = FALSE.
EmptyAttributes == [unavailable_counter |-> 0, unavailable_cause |-> "", data_stale |-> FALSE]

VARIABLES
    \* async_setup_entry (__init__.py)
    setup_pc,        \* position of the setup coroutine
    attempt,         \* loop variable of the bootstrap loop (0 outside the loop)
    attempts_made,   \* first-refresh calls made by the setup call in progress
    delays_made,     \* asyncio.sleep(initial_retry_delay) calls made by it
    sleep_time,      \* duration of the sleep in progress (0 when not sleeping)
    first_refresh_ok,\* a first refresh of the setup call in progress succeeded
    setup_result,    \* "none", "True", "False", "ConfigEntryNotReady"
    hass_data,       \* hass.data[DOMAIN][entry_id]: coordinator and lock
    coordinator_lock,\* the lock the PollingCoordinator was constructed with
    \* event loop and device
    lock_holder,     \* for each asyncio.Lock, the task holding it
    sched_pc,        \* the scheduled refresh: "idle" or "polling"
    reader,          \* coordinator.reader (client, encryption)
    \* BluettiSelect
    entity_added,    \* the select entity exists and listens to the coordinator
    entity_lock,     \* self._lock
    entity_coordinator, \* self.coordinator
    device_value,    \* the option the device itself is set to, where a
                     \* specification follows the device (SpecConverge)
    current_option,
    write_in_progress,
    attr_available,
    unavailable_counter,
    extra_state_attributes,
    last_update,     \* what the last _handle_coordinator_update did (its log line)
    \* write_to_device calls
    w_pc,            \* per write task: position
    w_timeout,       \* per write task: the timeout chosen (0 when not writing)
    w_shared,        \* per write task: shared_client is not None
    w_result,        \* per write task: how the last call ended
    w_refreshes,     \* per write task: refreshes started by the call
    w_slept          \* per write task: time slept since its write exchange ended

setup_vars == <<setup_pc, attempt, attempts_made, delays_made, sleep_time,
                first_refresh_ok, setup_result, hass_data, coordinator_lock>>
entity_vars == <<current_option, write_in_progress, attr_available,
                 unavailable_counter, extra_state_attributes, last_update>>
writer_vars == <<w_pc, w_timeout, w_shared, w_result, w_refreshes, w_slept>>
vars == <<setup_vars, lock_holder, sched_pc, reader, device_value, entity_added,
          entity_lock, entity_coordinator, entity_vars, writer_vars>>

\* ------------------------------------------------------------- initial

Init ==
    /\ setup_pc = "start"
    /\ attempt = 0
    /\ attempts_made = 0
    /\ delays_made = 0
    /\ sleep_time = 0
    /\ first_refresh_ok = FALSE
    /\ setup_result = "none"
    /\ hass_data = [coordinator |-> NoCoordinator, lock |-> Absent]
    /\ coordinator_lock = Absent
    /\ lock_holder = [l \in Locks |-> NoTask]
    /\ sched_pc = "idle"
    /\ reader = NoReader
    /\ device_value = "ECO"
    /\ entity_added = FALSE
    /\ entity_lock = Absent
    /\ entity_coordinator = NoCoordinator
    /\ current_option = "None"
    /\ write_in_progress = FALSE
    /\ attr_available = FALSE
    /\ unavailable_counter = InitialUnavailableCounter
    /\ extra_state_attributes = EmptyAttributes
    /\ last_update = "none"
    /\ w_pc = [w \in Writers |-> "idle"]
    /\ w_timeout = [w \in Writers |-> 0]
    /\ w_shared = [w \in Writers |-> FALSE]
    /\ w_result = [w \in Writers |-> "none"]
    /\ w_refreshes = [w \in Writers |-> 0]
    /\ w_slept = [w \in Writers |-> 0]

\* ------------------------------------------------- the per-device lock

\* asyncio.Lock.acquire / release, as the coordinator's refresh and the
\* library's DeviceWriter.write use the lock they were given.
LockFree(l) == l \in Locks /\ lock_holder[l] = NoTask
Acquire(l, t) == lock_holder' = [lock_holder EXCEPT ![l] = t]

\* Release that leaves the lock with its holder.
Release_never(l) == UNCHANGED lock_holder

\* asyncio.Lock.release
Release(l) == lock_holder' = [lock_holder EXCEPT ![l] = NoTask]

\* A task is inside a device exchange: a poll's full read or a field write.
InExchange(t) ==
    \/ t = "setup" /\ setup_pc = "first_refresh_exchange"
    \/ t = "sched" /\ sched_pc = "polling"
    \/ t \in Writers /\ w_pc[t] \in {"writing", "refreshing"}

\* A task is inside a refresh's exchange.
InPoll(t) == InExchange(t) /\ ~(t \in Writers /\ w_pc[t] = "writing")

\* ------------------------------------------------------- BluettiSelect

\* SetAvailable without the reset of the counter.
SetAvailable_keepsCounter ==
    /\ attr_available' = TRUE
    /\ unavailable_counter' = unavailable_counter
    /\ extra_state_attributes' = EmptyAttributes

\* select.py:115-120
SetAvailable ==
    /\ attr_available' = TRUE
    /\ unavailable_counter' = 0
    /\ extra_state_attributes' = EmptyAttributes

\* SetUnavailable that marks the entity unavailable.
SetUnavailable_marksUnavailable(cause) ==
    /\ unavailable_counter < MaxCounter
    /\ unavailable_counter' = unavailable_counter + 1
    /\ extra_state_attributes' = [unavailable_counter |-> unavailable_counter + 1,
                                  unavailable_cause |-> cause,
                                  data_stale |-> TRUE]
    /\ attr_available' = FALSE
    /\ UNCHANGED current_option

\* SetUnavailable that drops the last known value.
SetUnavailable_clearsValue(cause) ==
    /\ unavailable_counter < MaxCounter
    /\ unavailable_counter' = unavailable_counter + 1
    /\ extra_state_attributes' = [unavailable_counter |-> unavailable_counter + 1,
                                  unavailable_cause |-> cause,
                                  data_stale |-> TRUE]
    /\ current_option' = "None"
    /\ UNCHANGED attr_available

\* select.py:122-135  the value and the availability flag are left alone
SetUnavailable(cause) ==
    /\ unavailable_counter < MaxCounter
    /\ unavailable_counter' = unavailable_counter + 1
    /\ extra_state_attributes' = [unavailable_counter |-> unavailable_counter + 1,
                                  unavailable_cause |-> cause,
                                  data_stale |-> TRUE]
    /\ UNCHANGED <<attr_available, current_option>>

\* The handler without the write-in-progress guard.
SkipUpdate_never == FALSE

\* select.py:143  if self._write_in_progress: ... return
SkipUpdate == write_in_progress

\* select.py:173  isinstance(response_data, self._field.e)
IsEnumMember(v) == v \in Options

\* select.py:137-184
HandleCoordinatorUpdate(snap) ==
    IF SkipUpdate
    THEN /\ last_update' = "skipped"
         /\ UNCHANGED <<current_option, write_in_progress, attr_available,
                        unavailable_counter, extra_state_attributes>>
    ELSE /\ last_update' = "applied"
         /\ UNCHANGED write_in_progress
         /\ IF snap.kind = "None"
            THEN SetUnavailable("Data is None")
            ELSE IF snap.kind # "Dict"
            THEN SetUnavailable("Invalid data")
            ELSE IF snap.value = "missing"
            THEN SetUnavailable("No data")
            ELSE IF ~IsEnumMember(snap.value)
            THEN SetUnavailable("Invalid data type")
            ELSE SetAvailable /\ current_option' = snap.value

\* The snapshot yields valid data for the field.
ValidFor(snap) == snap.kind = "Dict" /\ IsEnumMember(snap.value)

\* ------------------------------------------- PollingCoordinator.refresh

\* The lock of the coordinator on which task t runs a refresh: the bootstrap
\* refreshes the coordinator its setup call has just built, the scheduled and
\* the forced refreshes run on the coordinator the entity listens to.
PollLock(t) == IF t = "setup" THEN coordinator_lock ELSE entity_coordinator.lock

\* refresh(): acquire the lock before the exchange with the device.
PollAcquire(t) ==
    /\ LockFree(PollLock(t))
    /\ Acquire(PollLock(t), t)

\* The entity is a listener of the coordinator on which task t runs a refresh.
Listens(t) == entity_added /\ Coordinator(PollLock(t)) = entity_coordinator

\* refresh(): the exchange ends; the lock is released, the result is stored
\* and the listeners are called, with no await in between.
PollPublish(t, snap) ==
    /\ Release(PollLock(t))
    /\ IF Listens(t) THEN HandleCoordinatorUpdate(snap) ELSE UNCHANGED entity_vars

\* refresh(): during the exchange the coordinator opens its connection when
\* it has none that is connected, and the encryption handshake proceeds or
\* fails: the reader's client and encryption change.
PollConnect(rd) ==
    /\ \E t \in Tasks : InPoll(t)
    /\ rd \in ReaderStates
    /\ rd.has_reader = reader.has_reader
    /\ rd # reader
    /\ reader' = rd
    /\ UNCHANGED <<device_value, setup_vars, lock_holder, sched_pc, entity_added,
                   entity_lock, entity_coordinator,
                   entity_vars, writer_vars>>

\* ---------------------------------------- async_setup_entry (__init__)

\* The retry test off by one: a sleep follows the last failure too.
RetryAfterFailure_inclusive(a) == a <= max_initial_attempts

\* __init__.py:81  if attempt < max_initial_attempts
RetryAfterFailure(a) == a < max_initial_attempts

\* __init__.py:68  for attempt in range(1, max_initial_attempts + 1)
LoopHasNext(a) == a + 1 < max_initial_attempts + 1

\* The lock stored by plain assignment, the coordinator by setdefault.
RegisterAndForward_assignsLock ==
    /\ hass_data' = [coordinator |-> IF hass_data.coordinator = NoCoordinator
                                     THEN Coordinator(coordinator_lock)
                                     ELSE hass_data.coordinator,
                     lock |-> coordinator_lock]
    /\ setup_pc' = "forward"
    /\ UNCHANGED setup_result

\* __init__.py:103-108  setdefault of coordinator and lock, then await forward
RegisterAndForward ==
    /\ hass_data' = [coordinator |-> IF hass_data.coordinator = NoCoordinator
                                     THEN Coordinator(coordinator_lock)
                                     ELSE hass_data.coordinator,
                     lock |-> IF hass_data.lock = Absent
                              THEN coordinator_lock ELSE hass_data.lock]
    /\ setup_pc' = "forward"
    /\ UNCHANGED setup_result

\* The last failure raised to the caller instead of being swallowed.
RetriesExhausted_raises ==
    /\ setup_pc' = "done"
    /\ setup_result' = "ConfigEntryNotReady"
    /\ UNCHANGED hass_data

\* __init__.py:91-101  all attempts failed: log, do not raise
RetriesExhausted == RegisterAndForward

\* A configuration that is never found to be missing.
ConfigIsNone_never(config_valid) == FALSE

\* __init__.py:38  if config is None
ConfigIsNone(config_valid) == ~config_valid

\* The locks some object still refers to.
LiveLocks == {hass_data.lock, hass_data.coordinator.lock, entity_lock,
              entity_coordinator.lock}

\* __init__.py:55  lock = asyncio.Lock(): a lock nobody refers to yet
NewLock == IF "lock_a" \notin LiveLocks THEN "lock_a" ELSE "lock_b"

\* __init__.py:36-76  up to the first await; reader is the reader of the
\* coordinator that the entity uses: of the new coordinator when none is
\* registered yet
SetupStart(config_valid, address_present, has_reader) ==
    /\ setup_pc = "start"
    /\ IF ConfigIsNone(config_valid)
       THEN /\ setup_pc' = "done"
            /\ setup_result' = "False"
            /\ UNCHANGED <<attempt, attempts_made, coordinator_lock, reader>>
       ELSE IF ~address_present
       THEN /\ setup_pc' = "done"
            /\ setup_result' = "ConfigEntryNotReady"
            /\ UNCHANGED <<attempt, attempts_made, coordinator_lock, reader>>
       ELSE /\ coordinator_lock' = NewLock
            /\ reader' = IF hass_data.coordinator # NoCoordinator THEN reader
                         ELSE IF has_reader THEN FreshReader ELSE NoReader
            /\ attempt' = 1
            /\ attempts_made' = attempts_made + 1
            /\ setup_pc' = "first_refresh"
            /\ UNCHANGED setup_result
    /\ UNCHANGED <<delays_made, sleep_time, first_refresh_ok, hass_data, lock_holder,
                   sched_pc, device_value, entity_added, entity_lock, entity_coordinator,
                   entity_vars, writer_vars>>

\* __init__.py:76  the first refresh takes the coordinator's lock
BootstrapBegin ==
    /\ setup_pc = "first_refresh"
    /\ PollAcquire("setup")
    /\ setup_pc' = "first_refresh_exchange"
    /\ UNCHANGED <<attempt, attempts_made, delays_made, sleep_time, first_refresh_ok,
                   setup_result, hass_data, coordinator_lock, sched_pc, reader, device_value,
                   entity_added, entity_lock, entity_coordinator, entity_vars, writer_vars>>

\* __init__.py:76-101  the first refresh returns or raises
BootstrapEnd(ok, snap) ==
    /\ setup_pc = "first_refresh_exchange"
    /\ PollPublish("setup", snap)
    /\ IF ok
       THEN /\ first_refresh_ok' = TRUE
            /\ RegisterAndForward
            /\ UNCHANGED <<delays_made, sleep_time>>
       ELSE IF RetryAfterFailure(attempt)
       THEN /\ setup_pc' = "sleeping"
            /\ sleep_time' = initial_retry_delay
            /\ delays_made' = delays_made + 1
            /\ UNCHANGED <<first_refresh_ok, setup_result, hass_data>>
       ELSE /\ RetriesExhausted
            /\ UNCHANGED <<first_refresh_ok, delays_made, sleep_time>>
    /\ UNCHANGED <<attempt, attempts_made, coordinator_lock, sched_pc, reader, device_value,
                   entity_added, entity_lock, entity_coordinator, writer_vars>>

\* __init__.py:90, 68  the sleep is over: next iteration, or the loop ends
BootstrapSleepDone ==
    /\ setup_pc = "sleeping"
    /\ sleep_time' = 0
    /\ IF LoopHasNext(attempt)
       THEN /\ attempt' = attempt + 1
            /\ attempts_made' = attempts_made + 1
            /\ setup_pc' = "first_refresh"
            /\ UNCHANGED <<setup_result, hass_data>>
       ELSE /\ RegisterAndForward
            /\ UNCHANGED <<attempt, attempts_made>>
    /\ UNCHANGED <<delays_made, first_refresh_ok, coordinator_lock, lock_holder, sched_pc,
                   reader, device_value, entity_added, entity_lock, entity_coordinator,
                   entity_vars, writer_vars>>

\* The platform making a lock of its own for the writers.
PlatformLock_ownLock == "lock_b"

\* select.py:33  lock = hass.data[DOMAIN][entry.entry_id][DATA_LOCK]
PlatformLock == hass_data.lock

\* __init__.py:108-112 with select.py:26-69, 75-108  the awaited platform
\* setup creates the select entity when it finds a coordinator in hass.data,
\* then async_setup_entry returns True; the bookkeeping of the bootstrap
\* loop ends with the call
ForwardAndReturn ==
    /\ setup_pc = "forward"
    /\ entity_added' = (hass_data.coordinator # NoCoordinator)
    /\ entity_lock' = PlatformLock
    /\ entity_coordinator' = hass_data.coordinator
    /\ current_option' = "None"
    /\ write_in_progress' = FALSE
    /\ attr_available' = FALSE
    /\ unavailable_counter' = InitialUnavailableCounter
    /\ extra_state_attributes' = EmptyAttributes
    /\ last_update' = "none"
    /\ setup_pc' = "done"
    /\ setup_result' = "True"
    /\ attempt' = 0
    /\ attempts_made' = 0
    /\ delays_made' = 0
    /\ first_refresh_ok' = FALSE
    /\ UNCHANGED <<sleep_time, hass_data, coordinator_lock, lock_holder, sched_pc,
                   reader, device_value, writer_vars>>

\* ------------------------------------------------ the scheduled refresh

\* The coordinator's periodic refresh runs while it has listeners.
ScheduledBegin ==
    /\ entity_added
    /\ sched_pc = "idle"
    /\ PollAcquire("sched")
    /\ sched_pc' = "polling"
    /\ UNCHANGED <<setup_vars, reader, device_value, entity_added, entity_lock,
                   entity_coordinator, entity_vars,
                   writer_vars>>

ScheduledEnd(snap) ==
    /\ sched_pc = "polling"
    /\ PollPublish("sched", snap)
    /\ sched_pc' = "idle"
    /\ UNCHANGED <<setup_vars, reader, device_value, entity_added, entity_lock,
                   entity_coordinator, writer_vars>>

\* The transport drops the poller's connection at any time.
LinkDrop(ready) ==
    /\ reader.is_connected
    /\ ready \in {reader.is_ready_for_commands, FALSE}
    /\ reader' = [reader EXCEPT !.is_connected = FALSE, !.is_ready_for_commands = ready]
    /\ UNCHANGED <<device_value, setup_vars, lock_holder, sched_pc, entity_added,
                   entity_lock, entity_coordinator,
                   entity_vars, writer_vars>>

\* ------------------------------------- async_select_option / write_to_device

\* The reuse condition without the readiness of the encryption.
ReuseDecision_ignoresReady(r) ==
    /\ r.has_reader
    /\ r.client_present
    /\ r.is_connected
    /\ r.encryption_present

\* select.py:209-215  the condition under which the coordinator's connection is reused
ReuseDecision(r) ==
    /\ r.has_reader
    /\ r.client_present
    /\ r.is_connected
    /\ r.encryption_present
    /\ r.is_ready_for_commands

\* select.py:219, 222
ChosenTimeout(reuse) == IF reuse THEN ReuseTimeout ELSE NewConnectionTimeout

\* The write tasks other than w whose write_to_device has not returned.
Unresolved(w) == {v \in Writers \ {w} : w_pc[v] # "idle"}

\* The requested option not shown before the device has answered.
OptimisticValue_keeps(option) == current_option

\* select.py:195  self.current_option = option
OptimisticValue(option) == option

\* select.py:186-236  async_select_option and write_to_device up to the
\* first await (writer.write, which waits for the lock)
SelectOption(w, option) ==
    /\ entity_added
    /\ w_pc[w] = "idle"
    /\ current_option' = OptimisticValue(option)
    /\ write_in_progress' = TRUE
    /\ w_shared' = [w_shared EXCEPT ![w] = ReuseDecision(reader)]
    /\ w_timeout' = [w_timeout EXCEPT ![w] = ChosenTimeout(ReuseDecision(reader))]
    /\ w_pc' = [w_pc EXCEPT ![w] = "write"]
    /\ w_result' = [w_result EXCEPT ![w] = "none"]
    /\ w_refreshes' = [w_refreshes EXCEPT ![w] = 0]
    /\ w_slept' = [w_slept EXCEPT ![w] = 0]
    /\ UNCHANGED <<setup_vars, lock_holder, sched_pc, reader, device_value, entity_added,
                   entity_lock, entity_coordinator, attr_available, unavailable_counter,
                   extra_state_attributes, last_update>>

\* select.py:232, 239  DeviceWriter.write takes the lock it was given
WriteBegin(w) ==
    /\ w_pc[w] = "write"
    /\ LockFree(entity_lock)
    /\ Acquire(entity_lock, w)
    /\ w_pc' = [w_pc EXCEPT ![w] = "writing"]
    /\ UNCHANGED <<setup_vars, sched_pc, reader, device_value, entity_added, entity_lock,
                   entity_coordinator,
                   entity_vars, w_timeout, w_shared, w_result, w_refreshes, w_slept>>

\* The flag cleared in the except clause only, not in a finally clause.
FlagAfterWrite_exceptOnly(outcome) == IF outcome = "timeout" THEN FALSE ELSE write_in_progress

\* select.py:244-249  _write_in_progress when writer.write has ended: still
\* set during the settle delay, cleared by the finally clause on an exception
FlagAfterWrite(outcome) == IF outcome = "ok" THEN write_in_progress ELSE FALSE

\* select.py:239-249  writer.write returns, raises TimeoutError, or raises
\* another error; the library releases the lock in each case
WriteEnd(w, outcome) ==
    /\ w_pc[w] = "writing"
    /\ outcome \in {"ok", "timeout", "error"}
    /\ Release(entity_lock)
    /\ write_in_progress' = FlagAfterWrite(outcome)
    /\ IF outcome = "ok"
       THEN /\ w_pc' = [w_pc EXCEPT ![w] = "settle"]
            /\ UNCHANGED <<w_timeout, w_shared, w_result>>
       ELSE /\ w_pc' = [w_pc EXCEPT ![w] = "idle"]
            /\ w_result' = [w_result EXCEPT ![w] = outcome]
            /\ w_timeout' = [w_timeout EXCEPT ![w] = 0]
            /\ w_shared' = [w_shared EXCEPT ![w] = FALSE]
    /\ UNCHANGED <<setup_vars, sched_pc, reader, device_value, entity_added, entity_lock,
                   entity_coordinator,
                   current_option, attr_available, unavailable_counter,
                   extra_state_attributes, last_update, w_refreshes, w_slept>>

\* select.py:242-254  the settle delay is over: the finally clause clears the
\* flag and async_refresh is awaited
SettleDone(w) ==
    /\ w_pc[w] = "settle"
    /\ write_in_progress' = FALSE
    /\ w_pc' = [w_pc EXCEPT ![w] = "refresh"]
    /\ w_slept' = [w_slept EXCEPT ![w] = SettleDelay]
    /\ UNCHANGED <<setup_vars, lock_holder, sched_pc, reader, device_value, entity_added,
                   entity_lock, entity_coordinator, current_option, attr_available,
                   unavailable_counter,
                   extra_state_attributes, last_update, w_timeout, w_shared, w_result,
                   w_refreshes>>

\* select.py:254  the forced refresh takes the coordinator's lock
ForcedRefreshBegin(w) ==
    /\ w_pc[w] = "refresh"
    /\ PollAcquire(w)
    /\ w_pc' = [w_pc EXCEPT ![w] = "refreshing"]
    /\ w_refreshes' = [w_refreshes EXCEPT ![w] = w_refreshes[w] + 1]
    /\ UNCHANGED <<setup_vars, sched_pc, reader, device_value, entity_added, entity_lock,
                   entity_coordinator,
                   entity_vars, w_timeout, w_shared, w_result, w_slept>>

\* select.py:254  the forced refresh ends and write_to_device returns
ForcedRefreshEnd(w, snap) ==
    /\ w_pc[w] = "refreshing"
    /\ PollPublish(w, snap)
    /\ w_pc' = [w_pc EXCEPT ![w] = "idle"]
    /\ w_result' = [w_result EXCEPT ![w] = "ok"]
    /\ w_timeout' = [w_timeout EXCEPT ![w] = 0]
    /\ w_shared' = [w_shared EXCEPT ![w] = FALSE]
    /\ w_slept' = [w_slept EXCEPT ![w] = 0]
    /\ UNCHANGED <<setup_vars, sched_pc, reader, device_value, entity_added, entity_lock,
                   entity_coordinator, w_refreshes>>

\* The device takes a new setting while a write exchange with it is under
\* way: the option written, or whatever the device makes of it.
DeviceChange(v) ==
    /\ \E w \in Writers : w_pc[w] = "writing"
    /\ v \in Options
    /\ v # device_value
    /\ device_value' = v
    /\ UNCHANGED <<setup_vars, lock_holder, sched_pc, reader, entity_added, entity_lock,
                   entity_coordinator, entity_vars, writer_vars>>

\* ------------------------------------------------------- specification

Next ==
    \/ \E c, a, h \in BOOLEAN : SetupStart(c, a, h)
    \/ BootstrapBegin
    \/ \E ok \in BOOLEAN, snap \in Snapshots : BootstrapEnd(ok, snap)
    \/ BootstrapSleepDone
    \/ ForwardAndReturn
    \/ ScheduledBegin
    \/ \E snap \in Snapshots : ScheduledEnd(snap)
    \/ \E rd \in ReaderStates : PollConnect(rd)
    \/ \E ready \in BOOLEAN : LinkDrop(ready)
    \/ \E w \in Writers, o \in Options : SelectOption(w, o)
    \/ \E w \in Writers : WriteBegin(w)
    \/ \E w \in Writers, outcome \in {"ok", "timeout", "error"} : WriteEnd(w, outcome)
    \/ \E w \in Writers : SettleDone(w)
    \/ \E w \in Writers : ForcedRefreshBegin(w)
    \/ \E w \in Writers, snap \in Snapshots : ForcedRefreshEnd(w, snap)

Spec == Init /\ [][Next]_vars

\* ------------------------------ specifications with a device and fairness

\* The snapshots a poll of the device can yield: a valid value for the field
\* is the option the device is set to.
LiveSnapshots == {snap \in Snapshots : ValidFor(snap) => snap.value = device_value}

\* The steps of Next with the device followed and the link left alone: the
\* poller's connection is neither opened nor dropped, which changes neither
\* who holds the lock nor what the entity shows.
NextLive ==
    \/ \E c, a, h \in BOOLEAN : SetupStart(c, a, h)
    \/ BootstrapBegin
    \/ \E ok \in BOOLEAN, snap \in LiveSnapshots : BootstrapEnd(ok, snap)
    \/ BootstrapSleepDone
    \/ ForwardAndReturn
    \/ ScheduledBegin
    \/ \E snap \in LiveSnapshots : ScheduledEnd(snap)
    \/ \E w \in Writers, o \in Options : SelectOption(w, o)
    \/ \E w \in Writers : WriteBegin(w)
    \/ \E v \in Options : DeviceChange(v)
    \/ \E w \in Writers, outcome \in {"ok", "timeout", "error"} : WriteEnd(w, outcome)
    \/ \E w \in Writers : SettleDone(w)
    \/ \E w \in Writers : ForcedRefreshBegin(w)
    \/ \E w \in Writers, snap \in LiveSnapshots : ForcedRefreshEnd(w, snap)

\* Every exchange ends (within its timeout), and asyncio.Lock wakes its
\* waiters first come, first served: a task waiting for the lock is not
\* passed over for ever.
LockFairness ==
    /\ \A w \in Writers : SF_vars(WriteBegin(w))
    /\ \A w \in Writers : SF_vars(ForcedRefreshBegin(w))
    /\ \A w \in Writers : WF_vars(\E outcome \in {"ok", "timeout", "error"} : WriteEnd(w, outcome))
    /\ \A w \in Writers : WF_vars(\E snap \in LiveSnapshots : ForcedRefreshEnd(w, snap))
    /\ WF_vars(\E snap \in LiveSnapshots : ScheduledEnd(snap))

SpecLock == Init /\ [][NextLive]_vars /\ LockFairness

\* The device stays reachable and the polls keep succeeding: the scheduled
\* refresh keeps being started, and again and again one of them ends with a
\* valid value for the field.
PollFairness ==
    /\ WF_vars(ScheduledBegin)
    /\ SF_vars(\E v \in Options : v = device_value /\ ScheduledEnd(DictData(v)))

SpecConverge == Init /\ [][NextLive]_vars /\ PollFairness

\* ------------------------------------ specification with repeated setups

\* Home Assistant calls async_setup_entry again for the same entry id, after
\* a call that ended in whichever way; hass.data is kept.
SetupAgain ==
    /\ setup_pc = "done"
    /\ setup_pc' = "start"
    /\ setup_result' = "none"
    /\ coordinator_lock' = Absent
    /\ UNCHANGED <<attempt, attempts_made, delays_made, sleep_time, first_refresh_ok,
                   hass_data, lock_holder, sched_pc, reader, device_value, entity_added,
                   entity_lock, entity_coordinator, entity_vars, writer_vars>>

\* The one write task of the specification with repeated setups.
SoleWriter == {"w1"}

\* The steps of Next without those on the link, with one write task and with
\* setups that repeat.
NextResetup ==
    \/ \E c, a, h \in BOOLEAN : SetupStart(c, a, h)
    \/ BootstrapBegin
    \/ \E ok \in BOOLEAN, snap \in Snapshots : BootstrapEnd(ok, snap)
    \/ BootstrapSleepDone
    \/ ForwardAndReturn
    \/ SetupAgain
    \/ ScheduledBegin
    \/ \E snap \in Snapshots : ScheduledEnd(snap)
    \/ \E w \in SoleWriter, o \in Options : SelectOption(w, o)
    \/ \E w \in SoleWriter : WriteBegin(w)
    \/ \E w \in SoleWriter, outcome \in {"ok", "timeout", "error"} : WriteEnd(w, outcome)
    \/ \E w \in SoleWriter : SettleDone(w)
    \/ \E w \in SoleWriter : ForcedRefreshBegin(w)
    \/ \E w \in SoleWriter, snap \in Snapshots : ForcedRefreshEnd(w, snap)

SpecResetup == Init /\ [][NextResetup]_vars

\* ------------------------------------------------------------- claims

\* A refresh that delivers to the entity ends in this step.
PollEnds ==
    \/ sched_pc = "polling" /\ sched_pc' = "idle"
    \/ \E w \in Writers : w_pc[w] = "refreshing" /\ w_pc'[w] = "idle"

\* A refresh ends and hands the snapshot snap to the entity's
\* _handle_coordinator_update (the bootstrap refreshes end before the entity
\* exists and deliver to nobody).
Delivers(snap) ==
    /\ entity_added
    /\ PollEnds
    /\ \/ ScheduledEnd(snap)
       \/ \E w \in Writers : ForcedRefreshEnd(w, snap)

\* The write task w returns from write_to_device in this step.
Returns(w) == w_pc[w] # "idle" /\ w_pc'[w] = "idle"

C2_NoUpdateWhileWriting ==
    [][\A snap \in Snapshots :
          write_in_progress /\ Delivers(snap) => current_option' = current_option]_vars

\* An update was delivered and skipped, and the write is still in progress.
C2_Witness ==
    last_update = "skipped" /\ write_in_progress /\ current_option \in Options

\* C3: when write_to_device returns or raises and no other write to the
\* field is unresolved, _write_in_progress is false, and the next coordinator
\* update is applied, not skipped.
C3_FlagClearedOnExit ==
    /\ []((\A w \in Writers : w_pc[w] = "idle") => ~write_in_progress)
    /\ [][/\ \A w \in Writers : Returns(w) /\ Unresolved(w) = {} => ~write_in_progress'
          /\ \A snap \in Snapshots :
                (\A w \in Writers : w_pc[w] = "idle") /\ Delivers(snap)
                    => last_update' = "applied"]_vars

\* A single write ended by an exception, the flag is clear and an update was
\* applied.
C3_Witness ==
    \E w \in Writers :
        /\ w_pc[w] = "idle" /\ w_result[w] \in {"timeout", "error"}
        /\ \A v \in Writers \ {w} : w_pc[v] = "idle" /\ w_result[v] = "none"
        /\ ~write_in_progress
        /\ last_update = "applied"

\* C4: the writer is given the poller's connection, with timeout 10, exactly
\* when at decision time the connection handle exists, is connected, and its
\* encryption is present and ready for commands; otherwise it is given no
\* shared connection and timeout 45.
C4_ReuseIffReady ==
    /\ [](\A w \in Writers : w_pc[w] # "idle" =>
            \/ w_shared[w] /\ w_timeout[w] = 10
            \/ ~w_shared[w] /\ w_timeout[w] = 45)
    /\ [][\A w \in Writers : w_pc[w] = "idle" /\ w_pc'[w] # "idle" =>
            (w_shared'[w] <=> /\ reader.has_reader
                              /\ reader.client_present
                              /\ reader.is_connected
                              /\ reader.encryption_present
                              /\ reader.is_ready_for_commands)]_vars

\* One write reuses the connection while another one does not.
C4_Witness ==
    \E w, v \in Writers :
        /\ w_pc[w] # "idle" /\ w_shared[w] /\ w_timeout[w] = 10
        /\ w_pc[v] # "idle" /\ ~w_shared[v] /\ w_timeout[v] = 45

\* C5: the bootstrap loop makes between 1 and 5 first-refresh attempts, none
\* after a success, and sleeps 5 after each of the failed attempts 1 to 4
\* only: the number of delays is the number of attempts minus one.
C5_BootstrapBounded ==
    /\ attempts_made <= 5 /\ delays_made <= 4
    /\ first_refresh_ok => setup_pc = "forward"
    /\ setup_pc \in {"first_refresh", "first_refresh_exchange"} =>
            attempts_made >= 1 /\ delays_made = attempts_made - 1
    /\ setup_pc = "sleeping" =>
            sleep_time = 5 /\ attempts_made \in 1..4 /\ delays_made = attempts_made
    /\ setup_pc = "forward" =>
            /\ attempts_made \in 1..5
            /\ delays_made = attempts_made - 1
            /\ (~first_refresh_ok => attempts_made = 5)

\* The loop has ended after five failed attempts and four delays.
C5_Witness ==
    setup_pc = "forward" /\ attempts_made = 5 /\ delays_made = 4 /\ ~first_refresh_ok

\* C6: with a valid config and the address present, the bootstrap loop
\* raises nothing, whatever its attempts did: the coordinator and the lock
\* are registered, the platforms are set up and async_setup_entry returns
\* True.
C6_SetupSurvivesBootstrap ==
    /\ setup_pc \in {"first_refresh", "first_refresh_exchange", "sleeping"} =>
            setup_result = "none"
    /\ setup_pc = "forward" =>
            /\ setup_result = "none"
            /\ hass_data.coordinator = Coordinator(coordinator_lock)
            /\ hass_data.lock = coordinator_lock
    /\ (setup_pc = "done" /\ coordinator_lock # Absent) =>
            /\ setup_result = "True"
            /\ entity_added
            /\ hass_data.coordinator = Coordinator(coordinator_lock)
            /\ hass_data.lock = coordinator_lock

\* All attempts failed and the coordinator and the lock are registered.
C6_Witness ==
    /\ setup_pc = "forward" /\ ~first_refresh_ok /\ attempts_made = max_initial_attempts
    /\ hass_data.lock = "lock_a" /\ hass_data.coordinator # NoCoordinator

\* C7 as claimed: after every delivered poll cycle the counter is 0 if the
\* snapshot is valid for the field, and the previous counter plus 1 if not.
C7_CounterAfterEveryCycle ==
    [][\A snap \in Snapshots : Delivers(snap) =>
          unavailable_counter' = IF ValidFor(snap) THEN 0
                                 ELSE unavailable_counter + 1]_vars

\* C7 amended: that holds of the cycles delivered while _write_in_progress is
\* false; a cycle delivered while it is true leaves the counter as it was.
C7_CounterAfterAppliedCycle ==
    [][\A snap \in Snapshots : Delivers(snap) =>
          unavailable_counter' = IF write_in_progress THEN unavailable_counter
                                 ELSE IF ValidFor(snap) THEN 0
                                 ELSE unavailable_counter + 1]_vars

\* Two failed cycles in a row after a successful one.
C7_Witness ==
    /\ attr_available /\ unavailable_counter = 2
    /\ extra_state_attributes.data_stale /\ last_update = "applied"

\* C8 as claimed: availability starts false, is true after any delivered
\* snapshot with a valid value for the field, and never goes back to false.
C8_AvailableAfterValidSnapshot ==
    /\ [](~entity_added => ~attr_available)
    /\ [][/\ \A snap \in Snapshots :
                Delivers(snap) /\ ValidFor(snap) => attr_available'
          /\ attr_available => attr_available']_vars

\* C8 amended: availability starts false, is true after a snapshot with a
\* valid value delivered while _write_in_progress is false, and never goes
\* back to false.
C8_AvailableAfterAppliedSnapshot ==
    /\ [](~entity_added => ~attr_available)
    /\ [][/\ \A snap \in Snapshots :
                Delivers(snap) /\ ValidFor(snap) /\ ~write_in_progress => attr_available'
          /\ attr_available => attr_available']_vars

\* The field is available, a later cycle failed and a later write failed.
C8_Witness ==
    /\ attr_available /\ extra_state_attributes.data_stale
    /\ \E w \in Writers : w_pc[w] = "idle" /\ w_result[w] \in {"timeout", "error"}

\* C9: a delivered cycle whose snapshot is None, no mapping, lacks the
\* field or has it of the wrong type changes neither current_option nor the
\* availability flag (nor the write flag): only the staleness metadata.
C9_FailedCycleKeepsValue ==
    [][\A snap \in Snapshots : Delivers(snap) /\ ~ValidFor(snap) =>
          /\ current_option' = current_option
          /\ attr_available' = attr_available
          /\ write_in_progress' = write_in_progress]_vars

\* The value is shown with the staleness metadata of a mistyped field.
C9_Witness ==
    /\ current_option \in Options /\ attr_available
    /\ extra_state_attributes.data_stale
    /\ extra_state_attributes.unavailable_cause = "Invalid data type"
    /\ extra_state_attributes.unavailable_counter = unavailable_counter

\* C10: a write_to_device call whose write completed or timed out has
\* started exactly one coordinator refresh when it returns, and that refresh
\* starts after the call has cleared _write_in_progress.
C10_OneRefreshPerWrite ==
    /\ \A w \in Writers :
          w_pc[w] = "idle" /\ w_result[w] \in {"ok", "timeout"} => w_refreshes[w] = 1
    /\ \A w \in Writers :
          w_pc[w] = "refreshing" /\ Unresolved(w) = {} => ~write_in_progress

\* select.py:186-199, 244-254  what the caller of async_select_option gets
\* when the call has ended with the given result: None after the forced
\* refresh, None again after a TimeoutError (caught, logged, return None),
\* the exception itself for any other error; "pending" before the end.
CallerOutcome(result) ==
    IF result = "error" THEN "raised"
    ELSE IF result \in {"ok", "timeout"} THEN "None"
    ELSE "pending"

\* C11: a write whose exchange ran into its timeout reports to its caller an
\* outcome that differs from the outcome of a successful write, its chosen
\* timeout having been 10 on a reused and 45 on an independent connection,
\* and it leaves the lock free for the poll cycles that follow.
C11_TimeoutReportedToCaller ==
    /\ \A w \in Writers :
         w_result[w] = "timeout" => CallerOutcome(w_result[w]) # CallerOutcome("ok")
    /\ \A w \in Writers :
         w_pc[w] = "writing" => w_timeout[w] = ChosenTimeout(w_shared[w])
    /\ \A w \in Writers :
         w_pc[w] = "idle" => \A l \in Locks : lock_holder[l] # w

\* C12: the lock is released on every exit path of an exchange, so a task
\* that is not in an exchange holds no lock; given that every exchange ends
\* and that the lock serves its waiters fairly, a write waiting for the lock
\* gets to its exchange and a forced poll waiting behind a write gets to its
\* own; and as long as a write is in its exchange it holds the lock and no
\* poll is in an exchange.
C12_BlockedTaskProceeds ==
    /\ [](\A t \in Tasks, l \in Locks : lock_holder[l] = t => InExchange(t))
    /\ \A w \in Writers : (w_pc[w] = "write") ~> (w_pc[w] = "writing")
    /\ \A w \in Writers : (w_pc[w] = "refresh") ~> (w_pc[w] = "refreshing")
    /\ [](\A w \in Writers : w_pc[w] = "writing" =>
             /\ lock_holder[entity_lock] = w
             /\ \A t \in Tasks : ~InPoll(t))

\* A forced poll waits for the lock held by the other task's write.
C12_Witness ==
    /\ w_pc["w1"] = "refresh"
    /\ w_pc["w2"] = "writing"
    /\ lock_holder[entity_lock] = "w2"

\* C13: after any sequence of async_setup_entry calls, repeated ones for the
\* same entry id included, the lock in the registry is the lock of the
\* coordinator in the registry, the entity built by the select platform has
\* that coordinator and that lock, and a writer in its exchange holds the
\* lock under which that coordinator polls.
C13_WritersShareCoordinatorLock ==
    /\ hass_data.lock = hass_data.coordinator.lock
    /\ entity_added =>
         /\ entity_coordinator = hass_data.coordinator
         /\ entity_lock = hass_data.lock
         /\ entity_lock \in Locks
         /\ entity_lock = entity_coordinator.lock
    /\ \A w \in Writers : w_pc[w] = "writing" => lock_holder[entity_coordinator.lock] = w

\* A second setup call has built a coordinator with a lock of its own and
\* has ended; a write is in its exchange.
C13_Witness ==
    /\ setup_pc = "done"
    /\ setup_result = "True"
    /\ coordinator_lock = "lock_b"
    /\ hass_data.lock = "lock_a"
    /\ w_pc["w1"] = "writing"

\* C14: a setup call with an invalid configuration ends at once with the
\* result False: no first-refresh attempt and no delay is made and nothing is
\* registered or created; and the result False comes from the start of the
\* call only, never out of the bootstrap loop, whose failures are the ones
\* that lead to another attempt.
C14_ConfigErrorAbortsSetup ==
    /\ [](setup_result = "False" =>
             /\ setup_pc = "done"
             /\ attempts_made = 0
             /\ delays_made = 0
             /\ hass_data = [coordinator |-> NoCoordinator, lock |-> Absent]
             /\ ~entity_added)
    /\ [][(\E a, h \in BOOLEAN : SetupStart(FALSE, a, h)) =>
             /\ setup_pc' = "done"
             /\ setup_result' = "False"
             /\ attempts_made' = 0
             /\ hass_data' = hass_data]_vars
    /\ [][(setup_result' = "False" /\ setup_result # "False") => setup_pc = "start"]_vars

\* A setup call has ended on an invalid configuration.
C14_Witness == setup_pc = "done" /\ setup_result = "False" /\ attempts_made = 0

\* The write task w calls async_select_option in this step.
Selects(w) == w_pc[w] = "idle" /\ w_pc'[w] = "write"

\* The write task w is the only one that has called async_select_option.
SingleWriter(w) == \A v \in Writers \ {w} : w_pc[v] = "idle" /\ w_result[v] = "none"

\* C15: async_select_option makes the requested option the visible value and
\* sets the flag in the step of the call, before the lock is asked for; for a
\* single write the flag then stays set until the call clears it after the
\* exchange and the settle delay; and as long as the flag is set no step but
\* another call of async_select_option changes the visible value, however
\* many poll cycles are delivered.
C15_OptimisticValueKept ==
    /\ [][\A w \in Writers, o \in Options : SelectOption(w, o) =>
             /\ current_option' = o
             /\ write_in_progress'
             /\ lock_holder' = lock_holder]_vars
    /\ [](\A w \in Writers :
             (SingleWriter(w) /\ w_pc[w] \in {"write", "writing", "settle"})
                 => write_in_progress)
    /\ [][(write_in_progress /\ ~\E w \in Writers : Selects(w))
             => current_option' = current_option]_vars

\* A single write is in its settle delay, the last poll cycle delivered was
\* skipped, and the requested option is shown.
C15_Witness ==
    /\ SingleWriter("w1")
    /\ w_pc["w1"] = "settle"
    /\ last_update = "skipped"
    /\ write_in_progress
    /\ current_option = "TURBO"

\* C16: after a successful write exchange the call sleeps the settle delay
\* with _write_in_progress set all the while and with no refresh started, and
\* its forced refresh is asked for and reads the device only when 3 time
\* units have been slept since the exchange.
C16_SettleThenClearThenRefresh ==
    \A w \in Writers :
        /\ w_pc[w] = "settle" => write_in_progress /\ w_refreshes[w] = 0
        /\ w_pc[w] \in {"refresh", "refreshing"} => w_slept[w] >= 3

\* C17: while at least one of the overlapping writes to the field has not
\* yet cleared the flag on its own exit path (it waits for the lock, is in
\* its exchange or in its settle delay), _write_in_progress is set.
C17_FlagCoversOverlappingWrites ==
    (\E w \in Writers : w_pc[w] \in {"write", "writing", "settle"}) => write_in_progress

\* C18: when a writer that has chosen to reuse the poller's connection (and
\* with it the timeout 10) starts its exchange under the lock, that
\* connection is still connected and ready for commands.
C18_ReuseStillValidAtExchange ==
    [][\A w \in Writers :
          (w_pc[w] = "write" /\ w_pc'[w] = "writing" /\ w_shared[w])
              => ReuseDecision(reader) /\ w_timeout[w] = ReuseTimeout]_vars

\* No call of async_select_option is under way.
AllIdle == \A w \in Writers : w_pc[w] = "idle"

\* C19: once a write has resolved, by success, by timeout or by another
\* error, and no call is under way, then, the device staying reachable and
\* the polls succeeding, the visible value comes to equal the option the
\* device is set to, unless a new write is requested first.
C19_VisibleValueConverges ==
    (AllIdle /\ \E w \in Writers : w_result[w] # "none")
        ~> (current_option = device_value \/ ~AllIdle)

\* A write has timed out, no call is under way, and the entity shows the
\* requested option, which is not the one the device is set to.
C19_Witness ==
    /\ AllIdle
    /\ w_result["w1"] = "timeout"
    /\ current_option \in Options
    /\ current_option # device_value

====
